---------------------------- MODULE Spec2Model ----------------------------
(***************************************************************************)
(* Model of request-uri: the Uri class (src/src/index.ts), its base        *)
(* resolver, the construction entry point and the fluent mutators.         *)
(*                                                                         *)
(* JavaScript values are tagged records ([t |-> "string", s |-> ...]).     *)
(* A string is a sequence of lexical tokens: the delimiters ":", "/", "?", *)
(* "#", "&", "=", ",", the decimal digits "0".."9", and maximal words      *)
(* ("https", "a.io", "x", "..").  Concatenation is \o on these sequences.  *)
(* The platform URL type the class extends is modelled by the WHATWG URL   *)
(* parsing and setter algorithms, run on token sequences.                  *)
(***************************************************************************)
EXTENDS Integers, Sequences, FiniteSets, TLC

VARIABLES
    window,        \* the global `window` (undefined outside a browser)
    request,       \* static #request: the stored default request
    fallbackBase,  \* static fallbackBase
    uri,           \* the Uri instance the caller holds (undefined: none)
    allocs,        \* number of Uri instances constructed so far
    lastSetArg,    \* history: argument of the most recent setRequest call
    last,          \* record of the most recent call and what it returned
    units          \* where each unit of work of the host framework stands

vars ==
    <<window, request, fallbackBase, uri, allocs, lastSetArg, last, units>>

---------------------------------------------------------------------------
(* Bounds of the model *)

MaxUris == 2
MaxParams == 2
MaxUnits == 2

---------------------------------------------------------------------------
(* JavaScript values *)

Undef == [t |-> "undefined"]
Null == [t |-> "null"]
Str(s) == [t |-> "string", s |-> s]
Num(n) == [t |-> "number", n |-> n]
Arr(items) == [t |-> "array", items |-> items]

\* Objects carry the properties the program reads; a property that is
\* absent reads as undefined, so it is held as undefined.
Location(origin, href) == [t |-> "object", origin |-> origin, href |-> href]
Window(location) == [t |-> "object", location |-> location]
Headers(host) == [t |-> "object", host |-> host]
\* A key-value mapping, its entries in Object.entries order.
Mapping(entries) == [t |-> "object", entries |-> entries]
Obj(class, url, headers, protocol, host, port) ==
    [t |-> "object", class |-> class, url |-> url, headers |-> headers,
     protocol |-> protocol, host |-> host, port |-> port]

\* ToBoolean, as applied by `||`, `&&` and `if`.
Truthy(v) ==
    CASE v.t = "undefined" -> FALSE
      [] v.t = "null" -> FALSE
      [] v.t = "string" -> v.s # <<>>
      [] v.t = "number" -> v.n # 0
      [] OTHER -> TRUE

\* Property read `v.name`; with optional chaining (`v?.name`) a read from
\* undefined or null yields undefined.  A primitive has none of the
\* properties read here.
Prop(v, name) ==
    IF v.t = "object" /\ name \in DOMAIN v THEN v[name] ELSE Undef

DigitTok == <<"0", "1", "2", "3", "4", "5", "6", "7", "8", "9">>
Digits == {DigitTok[i] : i \in 1..10}
DigitVal(tok) == (CHOOSE i \in 1..10 : DigitTok[i] = tok) - 1

\* Number::toString for a non-negative integer: its decimal digits.
RECURSIVE Dec(_)
Dec(n) ==
    IF n < 10 THEN <<DigitTok[n + 1]>>
    ELSE Dec(n \div 10) \o <<DigitTok[(n % 10) + 1]>>

RECURSIVE JoinStrs(_, _)
JoinStrs(strs, sep) ==
    IF strs = <<>> THEN <<>>
    ELSE IF Len(strs) = 1 THEN strs[1]
    ELSE strs[1] \o sep \o JoinStrs(Tail(strs), sep)

\* ToString, as applied by template literals and String(), and
\* Array.prototype.join, which writes undefined and null as "".
RECURSIVE ToStr(_), ArrayJoin(_, _)
ToStr(v) ==
    CASE v.t = "string" -> v.s
      [] v.t = "number" -> Dec(v.n)
      [] v.t = "undefined" -> <<"undefined">>
      [] v.t = "null" -> <<"null">>
      [] v.t = "array" -> ArrayJoin(v, <<",">>)
      [] OTHER -> <<"[object Object]">>

ArrayJoin(arr, sep) ==
    JoinStrs([i \in 1..Len(arr.items) |->
                IF arr.items[i].t \in {"undefined", "null"} THEN <<>>
                ELSE ToStr(arr.items[i])], sep)

---------------------------------------------------------------------------
(* Uri.#resolveBaseFromRequest / Uri.getBase *)

IsFetchRequest_Duck(v) == v.t = "object" /\ Prop(v, "url").t = "string"

\* `request instanceof Request`
IsFetchRequest(v) == v.t = "object" /\ Prop(v, "class") = "Request"

\* `request = request || this.#request`
EffectiveRequest(candidate, stored) ==
    IF Truthy(candidate) THEN candidate ELSE stored

\* Rule 1: `typeof window !== "undefined" && window?.location?.origin`,
\* returning `window.location.href || window.location.origin`.
BrowserSignal(win) ==
    win.t # "undefined" /\ Truthy(Prop(Prop(win, "location"), "origin"))

BrowserBase_OriginOnly(win) == Prop(Prop(win, "location"), "origin")

BrowserBase(win) ==
    IF Truthy(Prop(Prop(win, "location"), "href"))
    THEN Prop(Prop(win, "location"), "href")
    ELSE Prop(Prop(win, "location"), "origin")

\* Rule 4: `request && request.headers?.host && request.protocol`,
\* returning `${request.protocol}://${request.headers.host}`.
HeaderShape_HostOnly(req) ==
    Truthy(req) /\ Truthy(Prop(Prop(req, "headers"), "host"))

HeaderShape(req) ==
    Truthy(req) /\ Truthy(Prop(Prop(req, "headers"), "host"))
                /\ Truthy(Prop(req, "protocol"))

HeaderBase_UsesHost(req) ==
    Str(ToStr(Prop(req, "protocol")) \o <<":", "/", "/">>
        \o ToStr(Prop(req, "host")))

HeaderBase(req) ==
    Str(ToStr(Prop(req, "protocol")) \o <<":", "/", "/">>
        \o ToStr(Prop(Prop(req, "headers"), "host")))

\* Rule 5: `request && typeof request === "object" && request.protocol &&
\* request.host && request.port`, returning
\* `${request.protocol}://${request.host}:${request.port}`.
HostPortShape(req) ==
    /\ Truthy(req) /\ req.t \in {"object", "array"}   \* typeof "object"
    /\ Truthy(Prop(req, "protocol"))
    /\ Truthy(Prop(req, "host"))
    /\ Truthy(Prop(req, "port"))

HostPortBase_NoPort(req) ==
    Str(ToStr(Prop(req, "protocol")) \o <<":", "/", "/">>
        \o ToStr(Prop(req, "host")))

HostPortBase(req) ==
    Str(ToStr(Prop(req, "protocol")) \o <<":", "/", "/">>
        \o ToStr(Prop(req, "host")) \o <<":">> \o ToStr(Prop(req, "port")))

\* `request.headers?.host`: the optional chain reads undefined where
\* headers is undefined or null; a plain read there raises a TypeError.
Nullish(v) == v.t \in {"undefined", "null"}

Raised == [t |-> "TypeError"]

HeadersHost_Strict(req) ==
    IF Nullish(Prop(req, "headers")) THEN Raised
    ELSE Prop(Prop(req, "headers"), "host")

HeadersHost(req) == Prop(Prop(req, "headers"), "host")

\* Whether base resolution raises: a property read that is not optional
\* and whose object is undefined or null (`window.location.href`,
\* `request.headers.host`), in the order the rules are tried.
ResolveRaises(candidate, stored, win) ==
    LET req == EffectiveRequest(candidate, stored)
    IN  IF BrowserSignal(win)
        THEN Nullish(win) \/ Nullish(Prop(win, "location"))
        ELSE IF req.t = "string" \/ IsFetchRequest(req) THEN FALSE
        ELSE IF Truthy(req) /\ HeadersHost(req) = Raised THEN TRUE
        ELSE IF HeaderShape(req) THEN Nullish(Prop(req, "headers"))
        ELSE FALSE

ResolveBase(candidate, stored, win, fallback) ==
    LET req == EffectiveRequest(candidate, stored)
    IN  IF BrowserSignal(win) THEN BrowserBase(win)
        ELSE IF req.t = "string" THEN req
        ELSE IF IsFetchRequest(req) THEN Prop(req, "url")
        ELSE IF HeaderShape(req) THEN HeaderBase(req)
        ELSE IF HostPortShape(req) THEN HostPortBase(req)
        ELSE fallback

---------------------------------------------------------------------------
(* The platform URL type: parsing (`new URL(url, base)`)                   *)

NoPort == 0 - 1
Failure == [ok |-> FALSE]

AlphaWords ==
    {"http", "https", "ftp", "a.io", "b.io", "f.io", "w.io", "x", "y", "p",
     "q", "k", "v", "undefined", "null"}
ForbiddenHostToks == {"[object Object]", "%3F", "%23"}

IsSpecial(scheme) == scheme \in {<<"http">>, <<"https">>, <<"ftp">>}

DefaultPort(scheme) ==
    CASE scheme = <<"http">> -> 80
      [] scheme = <<"https">> -> 443
      [] scheme = <<"ftp">> -> 21
      [] OTHER -> NoPort

\* The first n tokens of s (all of s when it has fewer), and the rest.
Take(s, n) == SubSeq(s, 1, IF n > Len(s) THEN Len(s) ELSE n)
Drop(s, n) == SubSeq(s, (IF n > Len(s) THEN Len(s) ELSE n) + 1, Len(s))

\* Index of the first token of s that is in set, Len(s) + 1 when none is.
FirstIdx(s, set) ==
    IF \E i \in 1..Len(s) : s[i] \in set
    THEN CHOOSE i \in 1..Len(s) :
            s[i] \in set /\ \A j \in 1..(i - 1) : s[j] \notin set
    ELSE Len(s) + 1

RECURSIVE SkipSlashes(_)
SkipSlashes(s) ==
    IF s # <<>> /\ s[1] = "/" THEN SkipSlashes(Tail(s)) ELSE s

RECURSIVE SplitOn(_, _)
SplitOn(s, d) ==
    LET i == FirstIdx(s, {d})
    IN  IF i > Len(s) THEN <<s>>
        ELSE <<Take(s, i - 1)>> \o SplitOn(Drop(s, i), d)

RECURSIVE DecVal(_, _)
DecVal(toks, acc) ==
    IF toks = <<>> THEN acc
    ELSE DecVal(Tail(toks), acc * 10 + DigitVal(Head(toks)))

RECURSIVE SkipZeros(_)
SkipZeros(toks) ==
    IF Len(toks) > 1 /\ toks[1] = "0" THEN SkipZeros(Tail(toks)) ELSE toks

AllDigits(toks) == \A i \in 1..Len(toks) : toks[i] \in Digits

\* "shorten a url's path"
Shorten(path) == IF path = <<>> THEN <<>> ELSE Take(path, Len(path) - 1)

\* Path state: the segments between "/" in order, dot segments resolved.
RECURSIVE PathSegs(_, _)
PathSegs(path, segs) ==
    IF segs = <<>> THEN path
    ELSE LET seg == Head(segs)
             trail == IF Len(segs) = 1 THEN << <<>> >> ELSE <<>>
         IN  IF seg = <<"..">> THEN PathSegs(Shorten(path) \o trail, Tail(segs))
             ELSE IF seg = <<".">> THEN PathSegs(path \o trail, Tail(segs))
             ELSE PathSegs(Append(path, seg), Tail(segs))

\* Host parser: a domain of word and digit tokens; digits alone are an
\* IPv4 number (of at most nine digits here, so that it fits an integer of
\* the checker; no input of the model is longer).
HostParse(toks, special) ==
    IF toks = <<>>
    THEN IF special THEN Failure ELSE [ok |-> TRUE, host |-> Str(<<>>)]
    ELSE IF \E i \in 1..Len(toks) : toks[i] \in ForbiddenHostToks THEN Failure
    ELSE IF AllDigits(toks)
    THEN LET n == DecVal(Take(toks, 9), 0)
         IN  IF Len(toks) > 9 THEN Failure
             ELSE [ok |-> TRUE,
                   host |-> Str(Dec(n \div 16777216) \o <<".">>
                                \o Dec((n \div 65536) % 256) \o <<".">>
                                \o Dec((n \div 256) % 256) \o <<".">>
                                \o Dec(n % 256))]
    ELSE [ok |-> TRUE, host |-> Str(toks)]

\* Port state: decimal digits, at most 65535; the scheme's default port is
\* stored as null.
PortParse(toks, scheme) ==
    IF toks = <<>> THEN [ok |-> TRUE, port |-> NoPort, keep |-> TRUE]
    ELSE IF ~AllDigits(toks) THEN Failure
    ELSE LET n == DecVal(Take(SkipZeros(toks), 6), 0)
         IN  IF n > 65535 THEN Failure
             ELSE [ok |-> TRUE, keep |-> FALSE,
                   port |-> IF n = DefaultPort(scheme) THEN NoPort ELSE n]

\* Query and fragment states, from the "?" or "#" that ended the path.
QueryOf(rest) ==
    IF rest # <<>> /\ rest[1] = "?"
    THEN Str(Take(Tail(rest), FirstIdx(Tail(rest), {"#"}) - 1))
    ELSE Null

FragmentOf(rest) ==
    LET i == FirstIdx(rest, {"#"})
    IN  IF i > Len(rest) THEN Null ELSE Str(Drop(rest, i))

\* Path state entered with `path` already holding segments; rest starts
\* at the first token of the path (the "/" of path start already consumed).
PathQueryFragment(scheme, host, port, path, rest) ==
    LET pEnd == FirstIdx(rest, {"?", "#"})
        after == Drop(rest, pEnd - 1)
    IN  [ok |-> TRUE, scheme |-> scheme, host |-> host, port |-> port,
         opaque |-> FALSE,
         path |-> PathSegs(path, SplitOn(Take(rest, pEnd - 1), "/")),
         query |-> QueryOf(after), fragment |-> FragmentOf(after)]

\* Path start state.
PathStart(scheme, host, port, rest) ==
    IF ~IsSpecial(scheme) /\ (rest = <<>> \/ rest[1] \in {"?", "#"})
    THEN [ok |-> TRUE, scheme |-> scheme, host |-> host, port |-> port,
          opaque |-> FALSE, path |-> <<>>,
          query |-> QueryOf(rest), fragment |-> FragmentOf(rest)]
    ELSE PathQueryFragment(scheme, host, port, <<>>,
            IF rest # <<>> /\ rest[1] = "/" THEN Tail(rest) ELSE rest)

\* Authority, host and port states; rest starts after the slashes.
ParseAuthority(scheme, rest) ==
    LET aEnd == FirstIdx(rest, {"/", "?", "#"})
        auth == Take(rest, aEnd - 1)
        colon == FirstIdx(auth, {":"})
        host == HostParse(Take(auth, colon - 1), IsSpecial(scheme))
        port == PortParse(Drop(auth, colon), scheme)
    IN  IF colon <= Len(auth) /\ colon = 1 THEN Failure
        ELSE IF ~host.ok \/ ~port.ok THEN Failure
        ELSE PathStart(scheme, host.host, port.port, Drop(rest, aEnd - 1))

ParseRelative_OriginOnly(rest, base) ==
    PathQueryFragment(base.scheme, base.host, base.port, <<>>,
                      IF rest # <<>> /\ rest[1] = "/" THEN Tail(rest)
                      ELSE rest)

ParseRelative_KeepsBasePath(rest, base) ==
    PathQueryFragment(base.scheme, base.host, base.port, Shorten(base.path),
                      IF rest # <<>> /\ rest[1] = "/" THEN Tail(rest)
                      ELSE rest)

\* Relative state and relative slash state: input without a scheme (or
\* with the base's special scheme and no "//"), resolved against base.
ParseRelative(rest, base) ==
    IF rest = <<>>
    THEN [base EXCEPT !.fragment = Null]
    ELSE IF rest[1] = "/"
    THEN IF Len(rest) >= 2 /\ rest[2] = "/"
         THEN ParseAuthority(base.scheme,
                 IF IsSpecial(base.scheme) THEN SkipSlashes(rest)
                 ELSE Drop(rest, 2))
         ELSE PathQueryFragment(base.scheme, base.host, base.port, <<>>,
                                Tail(rest))
    ELSE IF rest[1] = "?"
    THEN [base EXCEPT !.query = QueryOf(rest), !.fragment = FragmentOf(rest)]
    ELSE IF rest[1] = "#"
    THEN [base EXCEPT !.fragment = FragmentOf(rest)]
    ELSE PathQueryFragment(base.scheme, base.host, base.port,
                           Shorten(base.path), rest)

\* Scheme start and scheme states: the index of the ":" ending a scheme,
\* 0 when the input has none.
SchemeEnd(input) ==
    LET i == FirstIdx(input, {":"})
    IN  IF /\ i <= Len(input) /\ i > 1
           /\ input[1] \in AlphaWords
           /\ \A j \in 2..(i - 1) : input[j] \in AlphaWords \cup Digits
        THEN i ELSE 0

\* The basic URL parser on input with an optional parsed base
\* (Failure: no base).
ParseUrl(input, base) ==
    LET i == SchemeEnd(input)
        scheme == Take(input, i - 1)
        rest == Drop(input, i)
    IN  IF i = 0
        THEN IF ~base.ok THEN Failure
             ELSE IF base.opaque
             THEN IF input # <<>> /\ input[1] = "#"
                  THEN [base EXCEPT !.fragment = FragmentOf(input)]
                  ELSE Failure
             ELSE ParseRelative(input, base)
        ELSE IF IsSpecial(scheme)
        THEN IF base.ok /\ base.scheme = scheme
                /\ ~(Len(rest) >= 2 /\ rest[1] = "/" /\ rest[2] = "/")
             THEN ParseRelative(rest, base)
             ELSE ParseAuthority(scheme, SkipSlashes(rest))
        ELSE IF Len(rest) >= 2 /\ rest[1] = "/" /\ rest[2] = "/"
        THEN ParseAuthority(scheme, Drop(rest, 2))
        ELSE IF rest # <<>> /\ rest[1] = "/"
        THEN PathQueryFragment(scheme, Null, NoPort, <<>>, Tail(rest))
        ELSE LET pEnd == FirstIdx(rest, {"?", "#"})
             IN  [ok |-> TRUE, scheme |-> scheme, host |-> Null,
                  port |-> NoPort, opaque |-> TRUE,
                  path |-> <<Take(rest, pEnd - 1)>>,
                  query |-> QueryOf(Drop(rest, pEnd - 1)),
                  fragment |-> FragmentOf(Drop(rest, pEnd - 1))]

---------------------------------------------------------------------------
(* The platform URL type: query list, serializers, constructor             *)

\* application/x-www-form-urlencoded parsing of a query string: the
\* non-empty pieces between "&", each split at its first "=".
RECURSIVE ParsePairs(_)
ParsePairs(pieces) ==
    IF pieces = <<>> THEN <<>>
    ELSE LET piece == Head(pieces)
             eq == FirstIdx(piece, {"="})
         IN  (IF piece = <<>> THEN <<>>
              ELSE << <<Take(piece, eq - 1), Drop(piece, eq)>> >>)
             \o ParsePairs(Tail(pieces))

ParseQuery(query) ==
    IF query.t = "null" THEN <<>> ELSE ParsePairs(SplitOn(query.s, "&"))

\* application/x-www-form-urlencoded byte serializer, token by token.
FormEncodeTok(tok) ==
    CASE tok = "[object Object]" -> "%5Bobject+Object%5D"
      [] tok = "=" -> "%3D"
      [] tok = "&" -> "%26"
      [] tok = "," -> "%2C"
      [] tok = "/" -> "%2F"
      [] tok = ":" -> "%3A"
      [] tok = "?" -> "%3F"
      [] tok = "#" -> "%23"
      [] OTHER -> tok

FormEncode(s) == [i \in 1..Len(s) |-> FormEncodeTok(s[i])]

SerializeQuery(list) ==
    JoinStrs([i \in 1..Len(list) |->
                FormEncode(list[i][1]) \o <<"=">> \o FormEncode(list[i][2])],
             <<"&">>)

\* The pathname getter.
RECURSIVE SlashJoin(_)
SlashJoin(path) ==
    IF path = <<>> THEN <<>>
    ELSE <<"/">> \o Head(path) \o SlashJoin(Tail(path))

Pathname(u) == IF u.opaque THEN u.path[1] ELSE SlashJoin(u.path)

\* The host getter: host, and ":" port when the port is not null.
HostOf(u) ==
    IF u.host.t = "null" THEN <<>>
    ELSE u.host.s \o (IF u.port = NoPort THEN <<>> ELSE <<":">> \o Dec(u.port))

\* The origin getter: a tuple origin for a special scheme, else opaque.
Origin(u) ==
    IF IsSpecial(u.scheme) THEN u.scheme \o <<":", "/", "/">> \o HostOf(u)
    ELSE <<"null">>

\* The URL serializer (href getter).
Href(u) ==
    u.scheme \o <<":">>
    \o (IF u.host.t = "null" THEN <<>> ELSE <<"/", "/">> \o HostOf(u))
    \o Pathname(u)
    \o (IF u.query.t = "null" THEN <<>> ELSE <<"?">> \o u.query.s)
    \o (IF u.fragment.t = "null" THEN <<>> ELSE <<"#">> \o u.fragment.s)

\* `new URL(url, base)`: the parsed record, Failure for the TypeError
\* "Invalid URL".  An undefined base is no base.
UrlCtor_IgnoresBase(url, base) == ParseUrl(ToStr(url), Failure)

UrlCtor(url, base) ==
    LET parsedBase == IF base.t = "undefined" THEN Failure
                      ELSE ParseUrl(ToStr(base), Failure)
    IN  IF base.t # "undefined" /\ ~parsedBase.ok THEN Failure
        ELSE ParseUrl(ToStr(url), parsedBase)

\* A Uri instance: the parsed URL, its query object and its identity.
NewUri(parsed, id) ==
    [t |-> "Uri", id |-> id, scheme |-> parsed.scheme, host |-> parsed.host,
     port |-> parsed.port, opaque |-> parsed.opaque, path |-> parsed.path,
     query |-> parsed.query, fragment |-> parsed.fragment,
     searchParams |-> ParseQuery(parsed.query)]

---------------------------------------------------------------------------
(* Inputs of the model *)

Origin_A == <<"https", ":", "/", "/", "a.io">>
Url_A == Origin_A \o <<"/", "p", "/", "q", "?", "k", "=", "v">>
Url_B == <<"http", ":", "/", "/", "b.io", ":", "8", "0", "8", "0",
           "/", "p", "/", "q", "?", "k", "=", "v">>
Origin_F == <<"https", ":", "/", "/", "f.io">>
Origin_W == <<"https", ":", "/", "/", "w.io">>

\* Plain objects: every combination of the four fields present or absent.
ShapeObjects ==
    {Obj("Object", Undef, h, p, ho, po) :
        h \in {Undef, Headers(Str(<<"a.io">>))},
        p \in {Undef, Str(<<"https">>)},
        ho \in {Undef, Str(<<"b.io">>)},
        po \in {Undef, Num(8080)}}

\* Objects with a field present but falsy, or of another type.
EdgeObjects ==
    {Obj("Object", Undef, Headers(Undef), Undef, Undef, Undef),
     Obj("Object", Undef, Headers(Str(<<>>)), Str(<<"https">>), Undef, Undef),
     Obj("Object", Undef, Undef, Str(<<"http">>), Str(<<"b.io">>), Num(0)),
     Obj("Object", Undef,
         Headers(Arr(<<Str(<<"a.io">>), Str(<<"b.io">>)>>)),
         Str(<<"https">>), Undef, Undef)}

\* Fetch Request instances, and plain objects that only look like one.
\* (A Request's headers are a Headers collection, whose entries are not
\* properties, and it has no protocol, host or port.)
UrlObjects ==
    {Obj("Request", Str(Url_B), Undef, Undef, Undef, Undef),
     Obj("Object", Str(Url_B), Undef, Undef, Undef, Undef),
     Obj("Object", Str(Url_B), Undef, Str(<<"https">>), Str(<<"a.io">>),
         Num(8080))}

StringRequests == {Str(<<>>), Str(Origin_A), Str(Url_A)}

\* Values that are neither a string nor an object with fields.
OtherValues == {Null, Num(5), Arr(<<>>)}

\* What a caller may pass as `request` (undefined: omitted).
Candidates ==
    {Undef} \cup StringRequests \cup UrlObjects \cup ShapeObjects
            \cup EdgeObjects \cup OtherValues

\* What setRequest is called with.
StoredRequests ==
    {Str(<<>>), Str(Origin_A),
     Obj("Request", Str(Url_B), Undef, Undef, Undef, Undef),
     Obj("Object", Undef, Headers(Str(<<"a.io">>)), Str(<<"https">>),
         Undef, Undef),
     Obj("Object", Undef, Undef, Str(<<"http">>), Str(<<"b.io">>),
         Num(8080))}

Fallbacks == {Undef, Str(Origin_F), Str(<<"f.io">>)}

Windows ==
    {Undef,
     Window(Undef),
     Window(Location(Str(Origin_W), Str(Origin_W \o <<"/", "p">>))),
     Window(Location(Str(Origin_W), Undef)),
     Window(Location(Str(<<>>), Str(Origin_W \o <<"/", "p">>)))}

Paths ==
    {Str(<<"/", "x">>), Str(<<"y">>),
     Str(<<"https", ":", "/", "/", "b.io", "/", "y">>),
     Str(<<"/", "/", "b.io", "/", "y">>)}

\* The calls of the entry point: every candidate with one path, and every
\* path with one candidate of each kind.
CoreCandidates ==
    {Undef, Str(<<>>), Str(Url_A),
     Obj("Request", Str(Url_B), Undef, Undef, Undef, Undef),
     Obj("Object", Undef, Headers(Str(<<"a.io">>)), Str(<<"https">>),
         Undef, Undef),
     Obj("Object", Undef, Undef, Str(<<"https">>), Str(<<"b.io">>),
         Num(8080)),
     Obj("Object", Undef, Undef, Undef, Undef, Undef)}

CreateInputs ==
    (Paths \X CoreCandidates) \cup ({Str(<<"/", "x">>)} \X Candidates)

---------------------------------------------------------------------------
(* Static configuration and the construction entry point *)

\* Uri.setRequest(request)
StoreRequest_FirstWins(current, arg) ==
    IF current.t = "undefined" THEN arg ELSE current

StoreRequest(current, arg) == arg

SetRequestCall(r) ==
    /\ request' = StoreRequest(request, r)
    /\ lastSetArg' = r
    /\ last' = [op |-> "set"]
    /\ UNCHANGED <<window, fallbackBase, uri, allocs>>

SetRequest(r) == SetRequestCall(r) /\ UNCHANGED units

\* Uri.fallbackBase = value
SetFallbackBase(v) ==
    /\ fallbackBase' = v
    /\ last' = [op |-> "set"]
    /\ UNCHANGED <<window, request, uri, allocs, lastSetArg, units>>

\* The environment installs or removes the global `window`.
SetWindow(w) ==
    /\ window' = w
    /\ last' = [op |-> "set"]
    /\ UNCHANGED <<request, fallbackBase, uri, allocs, lastSetArg, units>>

\* `request = request || this.#request` assigns the parameter: the static
\* slot keeps its value through base resolution.
SlotAfterResolve_Stores(candidate, stored) ==
    IF Truthy(candidate) THEN candidate ELSE stored

SlotAfterResolve(candidate, stored) == stored

\* Uri.request(path, request) / Uri.from(path, request): resolve the base,
\* then `new this(path, base)`.  A throw leaves the caller with no value.
CreateCall(path, candidate) ==
    /\ allocs < MaxUris
    /\ \E base \in {ResolveBase(candidate, request, window, fallbackBase)} :
       \E parsed \in {IF ResolveRaises(candidate, request, window)
                      THEN Failure ELSE UrlCtor(path, base)} :
           /\ last' = [op |-> "create", path |-> path,
                       candidate |-> candidate, base |-> base,
                       threw |-> ~parsed.ok,
                       error |-> IF ResolveRaises(candidate, request, window)
                                 THEN "TypeError"
                                 ELSE IF parsed.ok THEN "none"
                                 ELSE "Invalid URL"]
           /\ uri' = IF parsed.ok THEN NewUri(parsed, allocs + 1) ELSE Undef
           /\ allocs' = IF parsed.ok THEN allocs + 1 ELSE allocs
    /\ request' = SlotAfterResolve(candidate, request)
    /\ UNCHANGED <<window, fallbackBase, lastSetArg>>

Create(path, candidate) == CreateCall(path, candidate) /\ UNCHANGED units

Init ==
    /\ window \in Windows
    /\ request = Undef
    /\ fallbackBase = Undef
    /\ uri = Undef
    /\ allocs = 0
    /\ lastSetArg = Undef
    /\ last = [op |-> "init"]
    /\ units = <<>>

Next ==
    \/ \E r \in StoredRequests : SetRequest(r)
    \/ \E v \in Fallbacks : SetFallbackBase(v)
    \/ \E w \in Windows : SetWindow(w)
    \/ \E in \in CreateInputs : Create(in[1], in[2])

Spec == Init /\ [][Next]_vars

---------------------------------------------------------------------------
(* The platform URL type: the setters the mutators assign to *)

\* Path percent-encoding under a state override: "?" and "#" do not end
\* the path, they are encoded.
PathEncodeTok(tok) ==
    CASE tok = "?" -> "%3F" [] tok = "#" -> "%23" [] OTHER -> tok

\* `url.pathname = value`: empty the path, then parse value from the path
\* start state.
SetPathname_Relative(u, value) ==
    [u EXCEPT !.path =
        PathSegs(Shorten(u.path),
                 SplitOn([i \in 1..Len(value) |-> PathEncodeTok(value[i])],
                         "/"))]

SetPathname(u, value) ==
    LET enc == [i \in 1..Len(value) |-> PathEncodeTok(value[i])]
        body == IF enc # <<>> /\ enc[1] = "/" THEN Tail(enc) ELSE enc
    IN  IF u.opaque THEN u
        ELSE IF ~IsSpecial(u.scheme) /\ value = <<>>
        THEN [u EXCEPT !.path = <<>>]
        ELSE [u EXCEPT !.path = PathSegs(<<>>, SplitOn(body, "/"))]

\* `url.protocol = value`: parse value ":" from the scheme start state.  A
\* change between a special and a non-special scheme is ignored; a port
\* that is the new scheme's default becomes null.
SetProtocolAttr(u, value) ==
    LET i == SchemeEnd(value \o <<":">>)
        scheme == Take(value, i - 1)
    IN  IF i = 0 \/ IsSpecial(scheme) # IsSpecial(u.scheme) THEN u
        ELSE [u EXCEPT !.scheme = scheme,
                       !.port = IF u.port = DefaultPort(scheme) THEN NoPort
                                ELSE u.port]

\* The port state under a state override: the leading digits are the
\* port; none, or more than 65535, fails and leaves the port as it was.
PortOverride(u, toks) ==
    LET n == FirstIdx(toks, {t \in {toks[i] : i \in 1..Len(toks)} :
                                t \notin Digits})
        digits == Take(toks, n - 1)
        parsed == PortParse(digits, u.scheme)
    IN  IF digits = <<>> \/ ~parsed.ok THEN u
        ELSE [u EXCEPT !.port = parsed.port]

\* `url.host = value`: parse value from the host state; a ":" continues
\* into the port state.
SetHostAttr(u, value) ==
    LET hEnd == FirstIdx(value, {"/", "?", "#"})
        auth == Take(value, hEnd - 1)
        colon == FirstIdx(auth, {":"})
        host == HostParse(Take(auth, colon - 1), IsSpecial(u.scheme))
    IN  IF u.opaque \/ colon = 1 \/ ~host.ok THEN u
        ELSE IF colon > Len(auth) THEN [u EXCEPT !.host = host.host]
        ELSE PortOverride([u EXCEPT !.host = host.host], Drop(auth, colon))

\* `url.port = value`: ignored without a host; "" removes the port.
SetPortAttr(u, value) ==
    IF u.host.t = "null" \/ u.host = Str(<<>>) THEN u
    ELSE IF value = <<>> THEN [u EXCEPT !.port = NoPort]
    ELSE PortOverride(u, value)

\* `url.searchParams.append(name, value)`: the pair goes to the end of the
\* list and the URL's query becomes the list's serialization.
AppendParam_Set(u, name, value) ==
    LET kept == SelectSeq(u.searchParams, LAMBDA pr : pr[1] # name)
        list == Append(kept, <<name, value>>)
    IN  [u EXCEPT !.searchParams = list,
                  !.query = Str(SerializeQuery(list))]

AppendParam(u, name, value) ==
    LET list == Append(u.searchParams, <<name, value>>)
    IN  [u EXCEPT !.searchParams = list,
                  !.query = Str(SerializeQuery(list))]

---------------------------------------------------------------------------
(* The fluent mutators of Uri *)

\* `for (const [key, value] of Object.entries(query))
\*      this.searchParams.append(key, String(value))`
RECURSIVE AppendEntries(_, _)
AppendEntries(u, entries) ==
    IF entries = <<>> THEN u
    ELSE AppendEntries(
            AppendParam(u, Head(entries)[1], ToStr(Head(entries)[2])),
            Tail(entries))

\* The body of setQuery(query, value).
QuerySet(u, query, value) ==
    IF query.t = "object"                 \* typeof query === "object"
    THEN AppendEntries(u, query.entries)
    ELSE AppendParam(u, ToStr(query), ToStr(value))

\* `Array.isArray(path) ? path.join("/") : path`, assigned to pathname.
PathSet(u, path) ==
    SetPathname(u, IF path.t = "array" THEN ArrayJoin(path, <<"/">>)
                   ELSE ToStr(path))

\* `return this`: the reference a mutator returns.
ReturnThis_Copy(self) == self.id + 1

ReturnThis(self) == self.id

\* A mutator call on the instance the caller holds: the instance is
\* changed in place and a reference is returned.  No mutator has a throw
\* statement and no URL setter throws: a value the setter rejects leaves
\* the component as it was.
Mutate(op, arg1, arg2, after) ==
    /\ uri.t = "Uri"
    /\ uri' = after
    /\ last' = [op |-> op, arg1 |-> arg1, arg2 |-> arg2,
                ret |-> ReturnThis(uri), threw |-> FALSE]
    /\ UNCHANGED <<window, request, fallbackBase, allocs, lastSetArg,
                   units>>

NewEntries(query) == IF query.t = "object" THEN Len(query.entries) ELSE 1

SetQuery(query, value) ==
    /\ uri.t = "Uri"
    /\ Len(uri.searchParams) + NewEntries(query) <= MaxParams
    /\ Mutate("setQuery", query, value, QuerySet(uri, query, value))

SetProtocol(protocol) ==
    /\ uri.t = "Uri"
    /\ Mutate("setProtocol", protocol, Undef,
              SetProtocolAttr(uri, ToStr(protocol)))

SetPort(port) ==
    /\ uri.t = "Uri"
    /\ Mutate("setPort", port, Undef, SetPortAttr(uri, ToStr(port)))

SetHost(host) ==
    /\ uri.t = "Uri"
    /\ Mutate("setHost", host, Undef, SetHostAttr(uri, ToStr(host)))

SetPath(path) ==
    /\ uri.t = "Uri"
    /\ Mutate("setPath", path, Undef, PathSet(uri, path))

\* Inputs of the mutators.
QueryCalls ==
    {<<Str(<<"k">>), Str(<<"v">>)>>,
     <<Str(<<"k">>), Num(1)>>,
     <<Str(<<"q">>), Undef>>,
     <<Mapping(<< <<<<"k">>, Str(<<"v">>)>>, <<<<"q">>, Num(1)>> >>), Undef>>,
     <<Mapping(<< <<<<"k">>, Mapping(<<>>)>> >>), Undef>>,
     <<Mapping(<<>>), Undef>>}

PathArgs ==
    {Str(<<"/", "x">>), Str(<<"y">>),
     Arr(<<Str(<<"p">>), Str(<<"q">>)>>),
     Arr(<<Str(<<"p">>), Str(<<"..">>), Str(<<"x">>)>>)}

ProtocolArgs == {Str(<<"http">>), Str(<<"https", ":">>), Str(<<"x">>)}

HostArgs ==
    {Str(<<"b.io">>), Str(<<"a.io", ":", "8", "0">>), Str(<<>>),
     Str(<<"b.io", ":", "9", "9", "9", "9", "9">>)}

PortArgs ==
    {Str(<<"8", "0", "8", "0">>), Str(<<"4", "4", "3">>), Str(<<>>),
     Str(<<"x">>)}

\* `new Uri(url)`, as the caller of the mutators constructs its instance.
InitUrls == {Str(Origin_A), Str(Url_A)}

InitFluent ==
    /\ window = Undef
    /\ request = Undef
    /\ fallbackBase = Undef
    /\ \E url \in InitUrls : uri = NewUri(UrlCtor(url, Undef), 1)
    /\ allocs = 1
    /\ lastSetArg = Undef
    /\ last = [op |-> "new"]
    /\ units = <<>>

NextFluent ==
    \/ \E call \in QueryCalls : SetQuery(call[1], call[2])
    \/ \E protocol \in ProtocolArgs : SetProtocol(protocol)
    \/ \E port \in PortArgs : SetPort(port)
    \/ \E host \in HostArgs : SetHost(host)
    \/ \E path \in PathArgs : SetPath(path)

SpecFluent == InitFluent /\ [][NextFluent]_vars

---------------------------------------------------------------------------
(* The middleware pattern of the README: units of work sharing the slot *)

\* The inbound requests of the host framework.
UnitRequests ==
    {Obj("Object", Undef, Headers(Str(<<"a.io">>)), Str(<<"https">>),
         Undef, Undef),
     Obj("Object", Undef, Headers(Str(<<"b.io">>)), Str(<<"https">>),
         Undef, Undef),
     Obj("Object", Undef, Undef, Str(<<"http">>), Str(<<"b.io">>),
         Num(8080))}

\* The paths the handlers build URLs for.
HandlerPaths == {Str(<<"/", "x">>), Str(<<"y">>)}

Units == 1..MaxUnits

\* The framework accepts a request and starts a unit of work for it.
Arrive(u, req) ==
    /\ units[u].at = "idle"
    /\ units' = [units EXCEPT ![u] = [at |-> "arrived", req |-> req]]
    /\ UNCHANGED <<window, request, fallbackBase, uri, allocs, lastSetArg,
                   last>>

\* The middleware of the unit: `Uri.setRequest(req); next()`.
Middleware(u) ==
    /\ units[u].at = "arrived"
    /\ SetRequestCall(units[u].req)
    /\ units' = [units EXCEPT ![u].at = "set"]

\* The handler of the unit, run some time after its middleware:
\* `Uri.from(path)`.
Handler(u, path) ==
    /\ units[u].at = "set"
    /\ CreateCall(path, Undef)
    /\ units' = [units EXCEPT ![u].at = "done"]

InitMiddleware ==
    /\ window = Undef
    /\ request = Undef
    /\ fallbackBase \in {Undef, Str(Origin_F)}
    /\ uri = Undef
    /\ allocs = 0
    /\ lastSetArg = Undef
    /\ last = [op |-> "init"]
    /\ units = [u \in Units |-> [at |-> "idle", req |-> Undef]]

NextMiddleware ==
    \/ \E u \in Units : \E req \in UnitRequests : Arrive(u, req)
    \/ \E u \in Units : Middleware(u)
    \/ \E u \in Units : \E path \in HandlerPaths : Handler(u, path)

SpecMiddleware == InitMiddleware /\ [][NextMiddleware]_vars

---------------------------------------------------------------------------
(* Properties of base resolution and construction *)

NoBrowser == ~(window.t = "object" /\ window.location.t = "object"
               /\ Truthy(window.location.origin))

\* The candidate matches none of the shapes of rules 2 to 5.
MatchesNoShape(c) ==
    \/ c.t = "undefined"
    \/ /\ c.t = "object" /\ c.class # "Request"
       /\ ~(Truthy(Prop(c.headers, "host")) /\ Truthy(c.protocol))
       /\ ~(Truthy(c.protocol) /\ Truthy(c.host) /\ Truthy(c.port))

\* The rule list as the specification words it: the stored default stands
\* in for an omitted candidate, then the first rule whose condition holds
\* gives the result.
RuleListBase(candidate, stored, win, fallback) ==
    LET c == IF candidate.t = "undefined" THEN stored ELSE candidate
    IN  IF win.t = "object" /\ win.location.t = "object"
           /\ Truthy(win.location.origin)
        THEN IF Truthy(win.location.href) THEN win.location.href
             ELSE win.location.origin
        ELSE IF c.t = "string" THEN c
        ELSE IF c.t = "object" /\ c.class = "Request" THEN c.url
        ELSE IF c.t = "object" /\ Truthy(Prop(c.headers, "host"))
                /\ Truthy(c.protocol)
        THEN Str(ToStr(c.protocol) \o <<":", "/", "/">>
                 \o ToStr(c.headers.host))
        ELSE IF c.t = "object" /\ Truthy(c.protocol) /\ Truthy(c.host)
                /\ Truthy(c.port)
        THEN Str(ToStr(c.protocol) \o <<":", "/", "/">> \o ToStr(c.host)
                 \o <<":">> \o ToStr(c.port))
        ELSE fallback

\* C1: resolveBase(candidate) returns the result of the first rule, in the
\* order browser signal, string, fetch request, header/protocol shape,
\* protocol/host/port shape, fallback, that the candidate satisfies.  The
\* code departs from it for a candidate that is the empty string, which it
\* replaces by the stored default request before rule 2 is tried.
C1_FirstMatchingRule ==
    last.op = "create" =>
        last.base = RuleListBase(last.candidate, request, window, fallbackBase)

\* C2: with a browser signal whose location origin is non-empty, the base
\* is location.href when that is non-empty and location.origin otherwise,
\* whatever the candidate, the stored default request and the fallback.
C2_BrowserSignalWins ==
    (last.op = "create" /\ ~NoBrowser) =>
        last.base = (IF Truthy(window.location.href)
                     THEN window.location.href ELSE window.location.origin)

C2_Witness ==
    /\ last.op = "create" /\ ~NoBrowser
    /\ last.candidate.t = "object" /\ Truthy(last.candidate.protocol)
    /\ Truthy(request) /\ Truthy(fallbackBase)
    /\ last.base = window.location.href
    /\ window.location.href # window.location.origin

\* C3: without a browser signal, a candidate object with truthy
\* headers.host and protocol resolves to protocol "://" headers.host, also
\* when it carries truthy host and port or a fallback base is set.
C3_HeaderShapeBase ==
    (/\ last.op = "create" /\ NoBrowser
     /\ last.candidate.t = "object"
     /\ Truthy(Prop(last.candidate.headers, "host"))
     /\ Truthy(last.candidate.protocol)) =>
        last.base = Str(ToStr(last.candidate.protocol) \o <<":", "/", "/">>
                        \o ToStr(last.candidate.headers.host))

C3_Witness ==
    /\ last.op = "create" /\ NoBrowser
    /\ last.candidate.t = "object"
    /\ Truthy(Prop(last.candidate.headers, "host"))
    /\ Truthy(last.candidate.protocol)
    /\ Truthy(last.candidate.host) /\ Truthy(last.candidate.port)
    /\ Truthy(fallbackBase)
    /\ last.base = Str(<<"https", ":", "/", "/", "a.io">>)

\* C4: without a browser signal, a candidate object with truthy protocol,
\* host and port that does not match the header/protocol shape resolves to
\* protocol "://" host ":" port, whatever the fallback base.
C4_HostPortShapeBase ==
    (/\ last.op = "create" /\ NoBrowser
     /\ last.candidate.t = "object" /\ last.candidate.class # "Request"
     /\ ~(Truthy(Prop(last.candidate.headers, "host"))
          /\ Truthy(last.candidate.protocol))
     /\ Truthy(last.candidate.protocol) /\ Truthy(last.candidate.host)
     /\ Truthy(last.candidate.port)) =>
        last.base = Str(ToStr(last.candidate.protocol) \o <<":", "/", "/">>
                        \o ToStr(last.candidate.host) \o <<":">>
                        \o ToStr(last.candidate.port))

C4_Witness ==
    /\ last.op = "create" /\ NoBrowser
    /\ last.candidate.t = "object"
    /\ last.candidate.port = Num(8080)
    /\ Truthy(fallbackBase)
    /\ last.base = Str(<<"https", ":", "/", "/", "b.io", ":",
                         "8", "0", "8", "0">>)

\* A string that is the serialization of a tuple origin:
\* scheme "://" host, with ":" port when the port is not the default.
IsOriginString(v) ==
    /\ v.t = "string"
    /\ LET u == ParseUrl(v.s, Failure)
       IN  u.ok /\ IsSpecial(u.scheme) /\ Origin(u) = v.s

\* A path with no scheme of its own and no authority ("//host").
IsPathReference(v) ==
    /\ SchemeEnd(v.s) = 0
    /\ ~(Len(v.s) >= 2 /\ v.s[1] = "/" /\ v.s[2] = "/")

FallbackOnly ==
    /\ last.op = "create" /\ NoBrowser
    /\ MatchesNoShape(last.candidate) /\ MatchesNoShape(request)

C6_Original ==
    (FallbackOnly /\ fallbackBase.t = "undefined") =>
        (last.threw /\ uri.t = "undefined")

\* C6, amended: with no rule matching and no fallback base, create fails
\* with "Invalid URL" and returns no value, for every path that is not
\* itself a valid absolute URL.
C6_UnresolvableBase ==
    (FallbackOnly /\ fallbackBase.t = "undefined"
     /\ ~ParseUrl(last.path.s, Failure).ok) =>
        (last.threw /\ uri.t = "undefined")

C6_Witness ==
    /\ FallbackOnly /\ fallbackBase.t = "undefined"
    /\ last.path = Str(<<"/", "x">>)
    /\ last.candidate.t = "object" /\ Truthy(last.candidate.host)
    /\ last.threw

\* C7: create(path) with the candidate omitted yields what
\* create(path, r) yields, r being the argument of the most recent
\* setRequest call; the stored default is that r until the next call.
C7_LastWriteWins ==
    /\ lastSetArg.t # "undefined" => request = lastSetArg
    /\ (last.op = "create" /\ last.candidate.t = "undefined") =>
          LET base == ResolveBase(lastSetArg, request, window, fallbackBase)
              made == UrlCtor(last.path, base)
          IN  /\ last.base = base
              /\ last.threw = ~made.ok
              /\ made.ok => (uri.t = "Uri" /\ Href(uri) = Href(made))

C7_Witness ==
    /\ last.op = "create" /\ last.candidate.t = "undefined" /\ NoBrowser
    /\ lastSetArg.t = "object" /\ Truthy(lastSetArg.port)
    /\ allocs = MaxUris
    /\ uri.t = "Uri"
    /\ Href(uri) = <<"http", ":", "/", "/", "b.io", ":", "8", "0", "8", "0",
                     "/", "x">>

---------------------------------------------------------------------------
(* Properties of the fluent mutators *)

MutatorOps == {"setQuery", "setProtocol", "setPort", "setHost", "setPath"}

\* The entries a setQuery call is to add: one pair for the key/value
\* form, one pair per entry of a mapping in its iteration order, every
\* value as a string.
NewPairs(query, value) ==
    IF query.t = "object"
    THEN [i \in 1..Len(query.entries) |->
            <<query.entries[i][1], ToStr(query.entries[i][2])>>]
    ELSE << <<ToStr(query), ToStr(value)>> >>

\* C8: a setQuery call, in either form, leaves the parameter list equal to
\* the list before the call followed by the new entries in order, each
\* value converted to a string; no parameter is removed or overwritten,
\* and after an addition the query of the URL is the serialization of
\* that list.
C8_AppendOnly ==
    [][last'.op = "setQuery" =>
          /\ uri'.searchParams
                = uri.searchParams \o NewPairs(last'.arg1, last'.arg2)
          /\ NewPairs(last'.arg1, last'.arg2) # <<>> =>
                uri'.query = Str(SerializeQuery(uri'.searchParams))]_vars

C8_Witness ==
    /\ last.op = "setQuery" /\ last.arg1 = Str(<<"k">>)
    /\ last.arg2 = Num(1)
    /\ uri.searchParams = << <<<<"k">>, <<"v">>>>, <<<<"k">>, <<"1">>>> >>
    /\ uri.query = Str(<<"k", "=", "v", "&", "k", "=", "1">>)

\* The string setPath assigns: the segments joined with "/", or the
\* string itself; with a leading "/" when it has none.
JoinedPath(path) ==
    LET joined == IF path.t = "array" THEN ArrayJoin(path, <<"/">>)
                  ELSE path.s
    IN  IF joined # <<>> /\ joined[1] = "/" THEN joined
        ELSE <<"/">> \o joined

\* No "." or ".." segment, and no "?" or "#", in the assigned string.
PlainPath(path) ==
    \A i \in 1..Len(JoinedPath(path)) :
        JoinedPath(path)[i] \notin {".", "..", "?", "#"}

\* An instance whose path is the root.
RootUri == NewUri(UrlCtor(Str(Origin_W), Undef), 0)

\* C9 as stated: after setPath the pathname is the segments joined with
\* "/", or the given string.
C9_Original ==
    last.op = "setPath" => Pathname(uri) = JoinedPath(last.arg1)

\* C9, amended: after setPath the pathname is what the same call gives on
\* an instance with the root path, so nothing of the prior path remains;
\* it is the segments joined with "/", or the given string, when these
\* hold no "." or ".." segment and no "?" or "#".
C9_FullReplace ==
    last.op = "setPath" =>
        /\ Pathname(uri) = Pathname(PathSet(RootUri, last.arg1))
        /\ PlainPath(last.arg1) => Pathname(uri) = JoinedPath(last.arg1)

C9_Witness ==
    /\ last.op = "setPath"
    /\ last.arg1 = Arr(<<Str(<<"p">>), Str(<<"..">>), Str(<<"x">>)>>)
    /\ Pathname(uri) = <<"/", "x">>
    /\ uri.searchParams # <<>>

\* C10: every mutator returns the instance it was called on, and the call
\* creates no other instance.
C10_ReturnsReceiver ==
    [][last'.op \in MutatorOps =>
          /\ last'.ret = uri.id
          /\ uri'.id = uri.id
          /\ allocs' = allocs]_vars

C10_Witness ==
    /\ last.op = "setHost" /\ last.arg1 = Str(<<"b.io">>)
    /\ last.ret = uri.id
    /\ uri.host = Str(<<"b.io">>)
    /\ uri.scheme = <<"http">> /\ uri.port = 8080
    /\ Pathname(uri) = <<"/", "p", "/", "q">>
    /\ allocs = 1

---------------------------------------------------------------------------
(* Properties of the resolved URL *)

\* The URL string a string or fetch Request candidate carries.
CandidateUrl(c) == IF c.t = "string" THEN c ELSE c.url

\* A literal absolute-URL string, or a fetch Request whose url is one.
AbsoluteUrlCandidate(c) ==
    /\ c.t = "string" \/ (c.t = "object" /\ c.class = "Request")
    /\ ParseUrl(CandidateUrl(c).s, Failure).ok

C12_ConfigUnchanged ==
    [][last'.op = "create" =>
          (request' = request /\ fallbackBase' = fallbackBase)]_vars

C12_Witness ==
    /\ last.op = "create" /\ NoBrowser
    /\ last.candidate.t = "undefined"
    /\ request.t = "object" /\ last.base = Str(Origin_A)
    /\ fallbackBase = Str(Origin_F)
    /\ ~last.threw /\ allocs = MaxUris

\* The URL value is a valid absolute URL: its string form parses without
\* a base, and to the same URL.
ValidUrl(u) ==
    LET again == ParseUrl(Href(u), Failure)
    IN  again.ok /\ Href(again) = Href(u)

\* Text that is no port: not empty, and not digits of at most 65535.
InvalidPortText(toks) ==
    toks # <<>> /\ (~AllDigits(toks) \/ DecVal(Take(SkipZeros(toks), 6), 0) > 65535)

\* The argument of the last mutator call is not a value of the component
\* it was to set.
InvalidMutation ==
    \/ /\ last.op = "setPort" /\ InvalidPortText(ToStr(last.arg1))
    \/ /\ last.op = "setProtocol"
       /\ SchemeEnd(ToStr(last.arg1) \o <<":">>) = 0
    \/ /\ last.op = "setHost"
       /\ LET toks == ToStr(last.arg1)
              colon == FirstIdx(toks, {":"})
          IN  \/ ~HostParse(Take(toks, colon - 1), TRUE).ok
              \/ InvalidPortText(Drop(toks, colon))

\* The URL value is valid after construction and after every mutator
\* call.
AlwaysValidUrl == uri.t = "Uri" => ValidUrl(uri)

\* C13: the URL value is a valid absolute URL after construction and after
\* every mutator call, and a mutator call with an invalid input fails.  The
\* code never fails such a call: the setter ignores the value, or applies
\* the part of it that is valid.
C13_ValidOrFails ==
    /\ AlwaysValidUrl
    /\ (last.op \in MutatorOps /\ InvalidMutation) => last.threw

NoShape(c) ==
    /\ c.t # "string"
    /\ ~(c.t = "object" /\ c.class = "Request")
    /\ ~(Truthy(Prop(Prop(c, "headers"), "host"))
         /\ Truthy(Prop(c, "protocol")))
    /\ ~(Truthy(Prop(c, "protocol")) /\ Truthy(Prop(c, "host"))
         /\ Truthy(Prop(c, "port")))

RelativePath(p) ==
    /\ p.s # <<>> /\ SchemeEnd(p.s) = 0
    /\ p.s[1] \notin {"/", "?", "#"}

\* C16: without a browser signal, a relative path resolves against the
\* full path of a string or fetch Request candidate, keeping the
\* directories of that path (all segments but the last) and dropping its
\* query; with a header/protocol or protocol/host/port candidate it
\* resolves against the origin alone.
C16_RelativeAgainstFullPath ==
    (last.op = "create" /\ NoBrowser /\ RelativePath(last.path)) =>
        /\ AbsoluteUrlCandidate(last.candidate) =>
              LET u == ParseUrl(CandidateUrl(last.candidate).s, Failure)
              IN  /\ ~last.threw /\ uri.t = "Uri"
                  /\ Href(uri) = Origin(u) \o SlashJoin(Shorten(u.path))
                                   \o <<"/">> \o last.path.s
        /\ (/\ last.candidate.t = "object"
            /\ last.candidate.class # "Request"
            /\ ~NoShape(last.candidate)) =>
              /\ ~last.threw /\ uri.t = "Uri"
              /\ Href(uri) = last.base.s \o <<"/">> \o last.path.s

C16_Witness ==
    /\ last.op = "create" /\ NoBrowser
    /\ last.candidate = Str(Url_A) /\ last.path = Str(<<"y">>)
    /\ uri.t = "Uri"
    /\ Href(uri) = <<"https", ":", "/", "/", "a.io", "/", "p", "/", "y">>

\* C17: in the middleware pattern, the URL a unit of work gets from
\* create(path) with the candidate omitted is the URL create(path, own
\* request) would give, under every interleaving of the units.  The code
\* departs from it: the slot holds the request of the unit that called
\* setRequest last.
C17_UnitIsolation ==
    [][\A u \in Units :
          (units[u].at = "set" /\ units'[u].at = "done") =>
              LET own == ResolveBase(units[u].req, request, window,
                                     fallbackBase)
                  made == UrlCtor(last'.path, own)
              IN  /\ last'.base = own
                  /\ last'.threw = ~made.ok
                  /\ made.ok => Href(uri') = Href(made)]_vars

\* C18: with a candidate supplied, empty string included, the resolved
\* base does not depend on the stored default request: every other value
\* of the slot gives the same base for the same candidate, fallback base
\* and window.  The code departs from it for a supplied candidate that is
\* falsy (the empty string): the stored default is used in its place.
C18_IndependentOfDefault ==
    (last.op = "create" /\ last.candidate.t # "undefined") =>
        \A other \in StoredRequests \cup {Undef} :
            ResolveBase(last.candidate, other, window, fallbackBase)
                = last.base

===========================================================================
